---- MODULE Spec2Model ----
(***************************************************************************)
(* State-machine model of love::graphics::opengl::OpenGL                   *)
(* (src/modules/graphics/opengl/OpenGL.cpp): the cache of driver state     *)
(* (texture units, viewport, scissor, blend state, last uploaded           *)
(* matrices), the matrix stacks and the context lifecycle, together with   *)
(* the part of the OpenGL driver the cache mirrors.                        *)
(*                                                                         *)
(* Every operation of the class is an operator over a "world" record       *)
(*   [st, drv, calls, fault]                                               *)
(* st    : the member `state` of the class (the cache),                    *)
(* drv   : the driver's own state,                                         *)
(* calls : the driver calls the operation has issued so far,               *)
(* fault : whether a love::Exception was thrown.                           *)
(* so that an operation that calls another one (bindTextureToUnit calls    *)
(* setTextureUnit, initContext calls bindTexture and setBlendState) is     *)
(* the composition of their operators.  An action of the state machine is  *)
(* one whole call of a public method.                                      *)
(*                                                                         *)
(* Cache fields that no modelled operation reads (color, clearColor,       *)
(* pointSize, defaultFBO) are not represented.                             *)
(***************************************************************************)
EXTENDS Integers, Sequences, FiniteSets, TLC

(***************************************************************************)
(* Bounds of the model.                                                    *)
(***************************************************************************)
\* GL_MAX_COMBINED_TEXTURE_IMAGE_UNITS of the largest driver modelled.
MaxUnits == 2
\* Texture names are 1..MaxTex; 0 is "no texture".
MaxTex == 2
\* pushTransform is not called on a stack of this depth.
MaxDepth == 3
\* The vertical coordinates of the rectangles handed to setScissor are 0..MaxCoord.
MaxCoord == 1
\* initContext is not called on a driver whose scissor box lies further than
\* MaxY above or below the origin.
MaxY == 3
\* A draw call is not made once the draw-call counter has reached MaxDraws.
MaxDraws == 2

\* The element value written by initContext to invalidate the cached
\* matrices (std::numeric_limits<float>::quiet_NaN()).
NaNVal == -1

Handles == 0..MaxTex
TexNames == 1..MaxTex
UnitArgs == (-1)..MaxUnits

VARIABLES
    contextInitialized, \* OpenGL::contextInitialized
    state,              \* OpenGL::state (the cache)
    matrices,           \* OpenGL::matrices
    caps,               \* vendor, maxAnisotropy, maxTextureSize, maxRenderTargets
    stats,              \* OpenGL::stats
    drv,                \* the driver's state
    glad,               \* what the driver supports (the GLAD_* flags, Shader/Canvas::isSupported)
    calls,              \* the driver calls issued by the last operation
    lastOp,             \* the last operation, its arguments and how it ended
    hist                \* history: what the claims about sequences of calls need

vars == <<contextInitialized, state, matrices, caps, stats, drv, glad, calls, lastOp, hist>>

(***************************************************************************)
(* Values.                                                                 *)
(***************************************************************************)
Rect(x, y, w, h) == [x |-> x, y |-> y, w |-> w, h |-> h]

\* A 4x4 matrix, as far as the class looks at it: its linear part and its
\* translation (elements 12 and 13, the ones setTranslation writes).
Mat(lin, tr) == [lin |-> lin, tr |-> tr]
\* Matrix(): the identity.
Identity == Mat(0, 0)
\* Matrix::setTranslation(x, y) with x = y = tr.
setTranslation(m, tr) == [m EXCEPT !.tr = tr]
\* The matrices a caller writes through the reference getTransform() returns.
MatVals == {Mat(0, 0), Mat(1, 0), Mat(0, 1)}

\* BlendState {srcRGB, srcA, dstRGB, dstA, func}
Blend(srcRGB, srcA, dstRGB, dstA, func) ==
    [srcRGB |-> srcRGB, srcA |-> srcA, dstRGB |-> dstRGB, dstA |-> dstA, func |-> func]


(***************************************************************************)
(* The driver.  glad holds what gladLoadGL found: the GL versions and      *)
(* extensions, and what Shader::isSupported() and Canvas::isSupported()    *)
(* answer.  A driver without shader support has a single texture unit      *)
(* (the assumption stated at OpenGL.cpp:124).                              *)
(***************************************************************************)
Glad(es2, v10, v11, v14, v20, minmax, subtract, separate, aniso, drawbufs, shader, canvas) ==
    [es2 |-> es2, v10 |-> v10, v11 |-> v11, v14 |-> v14, v20 |-> v20,
     blendMinmax |-> minmax, blendSubtract |-> subtract, blendFuncSeparate |-> separate,
     anisotropic |-> aniso, drawBuffers |-> drawbufs, shader |-> shader, canvas |-> canvas]

\* Desktop GL 1.1, fixed function only.
ProfileLegacy ==
    Glad(FALSE, TRUE, TRUE, FALSE, FALSE, FALSE, FALSE, FALSE, FALSE, FALSE, FALSE, FALSE)
\* Desktop GL 2.x with shaders and framebuffer objects.
ProfileDesktop ==
    Glad(FALSE, TRUE, TRUE, TRUE, TRUE, TRUE, TRUE, TRUE, TRUE, TRUE, TRUE, TRUE)
\* OpenGL ES 2.
ProfileES2 ==
    Glad(TRUE, FALSE, FALSE, FALSE, FALSE, FALSE, FALSE, FALSE, FALSE, FALSE, TRUE, TRUE)

\* Desktop GL 1.1 with EXT_blend_minmax and EXT_blend_subtract.
ProfileExtEquation ==
    Glad(FALSE, TRUE, TRUE, FALSE, FALSE, TRUE, TRUE, FALSE, FALSE, FALSE, FALSE, FALSE)
\* Desktop GL 1.1 with EXT_blend_func_separate.
ProfileExtSeparate ==
    Glad(FALSE, TRUE, TRUE, FALSE, FALSE, FALSE, FALSE, TRUE, FALSE, FALSE, FALSE, FALSE)
\* Desktop GL 1.1 with EXT_blend_minmax alone.
ProfileExtMinmax ==
    Glad(FALSE, TRUE, TRUE, FALSE, FALSE, TRUE, FALSE, FALSE, FALSE, FALSE, FALSE, FALSE)
\* Desktop GL 1.1 with the three blend extensions.
ProfileExtBlend ==
    Glad(FALSE, TRUE, TRUE, FALSE, FALSE, TRUE, TRUE, TRUE, FALSE, FALSE, FALSE, FALSE)

Profiles ==
    {ProfileLegacy, ProfileDesktop, ProfileES2,
     ProfileExtEquation, ProfileExtSeparate, ProfileExtMinmax, ProfileExtBlend}

\* The number of texture units of a driver state / of the cache.
DrvUnits(d) == Cardinality(DOMAIN d.bound)
NumUnits(st) == Cardinality(DOMAIN st.textureUnits)

\* One entry of the call log: the entry point, its arguments, and the
\* driver's active texture unit and matrix mode when the call was made.
Call(fn, args, d) ==
    [fn |-> fn, args |-> args, unit |-> d.activeUnit, mode |-> d.matrixMode]

\* glActiveTexture(GL_TEXTURE0 + u)
glActiveTexture(d, u) == [d EXCEPT !.activeUnit = u]

\* glBindTexture(GL_TEXTURE_2D, t): binds t to the active unit; an unused
\* name becomes a texture.
glBindTexture(d, t) ==
    [d EXCEPT !.bound[d.activeUnit] = t, !.names = @ \cup ({t} \ {0})]

\* glGenTextures(1, &t) returned t, an unused name.
glGenTextures(d, t) == [d EXCEPT !.names = @ \cup {t}]

\* glDeleteTextures(1, &t): 0 and unused names are ignored; a texture that
\* is bound reverts to 0 on every unit it is bound to.
glDeleteTextures(d, t) ==
    IF t \notin d.names THEN d
    ELSE [d EXCEPT !.bound = [u \in DOMAIN @ |-> IF @[u] = t THEN 0 ELSE @[u]],
                   !.names = @ \ {t}]

\* glViewport / glScissor
glViewport(d, r) == [d EXCEPT !.viewport = r]
glScissor(d, r) == [d EXCEPT !.scissor = r]

\* glBlendEquation[EXT](func)
glBlendEquation(d, func) == [d EXCEPT !.blendEq = func]
\* glBlendFunc(src, dst) / glBlendFuncSeparate[EXT](srcRGB, dstRGB, srcA, dstA)
glBlendFuncSeparate(d, srcRGB, dstRGB, srcA, dstA) ==
    [d EXCEPT !.blendFactors = <<srcRGB, dstRGB, srcA, dstA>>]
glBlendFunc(d, src, dst) == glBlendFuncSeparate(d, src, dst, src, dst)

\* glMatrixMode(mode)
glMatrixMode(d, mode) == [d EXCEPT !.matrixMode = mode]
\* glLoadMatrixf(m): replaces the current matrix of the current mode.
glLoadMatrixf(d, m) ==
    IF d.matrixMode = "GL_PROJECTION"
    THEN [d EXCEPT !.projection = m]
    ELSE [d EXCEPT !.modelview = m]

(***************************************************************************)
(* Worlds.                                                                 *)
(***************************************************************************)
World(st, d, c) == [st |-> st, drv |-> d, calls |-> c, fault |-> FALSE]
\* throw love::Exception(...)
Throw(w) == [w EXCEPT !.fault = TRUE]
\* The operation issues driver call fn(args), which takes the driver to d.
Issue(w, fn, args, d) ==
    [w EXCEPT !.calls = Append(@, Call(fn, args, w.drv)), !.drv = d]


(***************************************************************************)
(* Texture units.                                                          *)
(***************************************************************************)
\* Mutant: the index is not tested against the number of units.
setTextureUnit_noRangeCheck(w, textureunit) ==
    IF textureunit # w.st.curTextureUnit
    THEN IF NumUnits(w.st) > 1
         THEN LET w1 == Issue(w, "glActiveTexture", <<textureunit>>,
                              glActiveTexture(w.drv, textureunit))
              IN  [w1 EXCEPT !.st.curTextureUnit = textureunit]
         ELSE Throw(w)
    ELSE [w EXCEPT !.st.curTextureUnit = textureunit]

\* Mutant: switches the driver's unit without comparing with the cache.
setTextureUnit_alwaysSwitch(w, textureunit) ==
    IF textureunit < 0 \/ textureunit >= NumUnits(w.st)
    THEN Throw(w)
    ELSE IF NumUnits(w.st) > 1
         THEN LET w1 == Issue(w, "glActiveTexture", <<textureunit>>,
                              glActiveTexture(w.drv, textureunit))
              IN  [w1 EXCEPT !.st.curTextureUnit = textureunit]
         ELSE IF textureunit # w.st.curTextureUnit THEN Throw(w)
         ELSE w

\* OpenGL::setTextureUnit(textureunit)
setTextureUnit(w, textureunit) ==
    IF textureunit < 0 \/ textureunit >= NumUnits(w.st)
    THEN Throw(w)
    ELSE IF textureunit # w.st.curTextureUnit
         THEN IF NumUnits(w.st) > 1
              THEN LET w1 == Issue(w, "glActiveTexture", <<textureunit>>,
                                   glActiveTexture(w.drv, textureunit))
                   IN  [w1 EXCEPT !.st.curTextureUnit = textureunit]
              ELSE Throw(w)
         ELSE [w EXCEPT !.st.curTextureUnit = textureunit]

\* Mutant: binds without comparing with the cache.
bindTexture_always(w, texture) ==
    LET w1 == [w EXCEPT !.st.textureUnits[w.st.curTextureUnit] = texture]
    IN  Issue(w1, "glBindTexture", <<texture>>, glBindTexture(w1.drv, texture))

\* OpenGL::bindTexture(texture)
bindTexture(w, texture) ==
    IF texture # w.st.textureUnits[w.st.curTextureUnit]
    THEN LET w1 == [w EXCEPT !.st.textureUnits[w.st.curTextureUnit] = texture]
         IN  Issue(w1, "glBindTexture", <<texture>>, glBindTexture(w1.drv, texture))
    ELSE w

\* Mutant: binds without making textureunit the active unit first.
bindTextureToUnit_noSwitch(w, texture, textureunit, restoreprev) ==
    IF textureunit < 0 \/ textureunit >= NumUnits(w.st)
    THEN Throw(w)
    ELSE IF texture # w.st.textureUnits[textureunit]
         THEN LET w2 == [w EXCEPT !.st.textureUnits[textureunit] = texture]
              IN  Issue(w2, "glBindTexture", <<texture>>, glBindTexture(w2.drv, texture))
         ELSE w

\* Mutant: restoreprev is ignored.
bindTextureToUnit_noRestore(w, texture, textureunit, restoreprev) ==
    IF textureunit < 0 \/ textureunit >= NumUnits(w.st)
    THEN Throw(w)
    ELSE IF texture # w.st.textureUnits[textureunit]
         THEN LET w1 == setTextureUnit(w, textureunit)
                  w2 == [w1 EXCEPT !.st.textureUnits[textureunit] = texture]
              IN  IF w1.fault THEN w1
                  ELSE Issue(w2, "glBindTexture", <<texture>>, glBindTexture(w2.drv, texture))
         ELSE w

\* OpenGL::bindTextureToUnit(texture, textureunit, restoreprev)
bindTextureToUnit(w, texture, textureunit, restoreprev) ==
    IF textureunit < 0 \/ textureunit >= NumUnits(w.st)
    THEN Throw(w)
    ELSE IF texture # w.st.textureUnits[textureunit]
         THEN LET oldtextureunit == w.st.curTextureUnit
                  w1 == setTextureUnit(w, textureunit)
                  w2 == [w1 EXCEPT !.st.textureUnits[textureunit] = texture]
                  w3 == Issue(w2, "glBindTexture", <<texture>>,
                              glBindTexture(w2.drv, texture))
              IN  IF w1.fault THEN w1
                  ELSE IF restoreprev THEN setTextureUnit(w3, oldtextureunit)
                  ELSE w3
         ELSE w

\* Mutant: clears the cache entry of the current unit only.
deleteTexture_currentUnitOnly(w, texture) ==
    LET cur == w.st.curTextureUnit
        w1 == [w EXCEPT !.st.textureUnits[cur] = IF @ = texture THEN 0 ELSE @]
    IN  Issue(w1, "glDeleteTextures", <<texture>>, glDeleteTextures(w1.drv, texture))

\* Mutant: the cache is left as it is.
deleteTexture_keepsCache(w, texture) ==
    Issue(w, "glDeleteTextures", <<texture>>, glDeleteTextures(w.drv, texture))

\* OpenGL::deleteTexture(texture)
deleteTexture(w, texture) ==
    LET w1 == [w EXCEPT !.st.textureUnits =
                   [i \in DOMAIN @ |-> IF @[i] = texture THEN 0 ELSE @[i]]]
    IN  Issue(w1, "glDeleteTextures", <<texture>>, glDeleteTextures(w1.drv, texture))

(***************************************************************************)
(* Viewport and scissor.  canvas: whether Canvas::current is set.          *)
(***************************************************************************)
\* Mutant: the test of Canvas::current is inverted.
setScissor_flipInverted(w, v, canvas) ==
    LET box == IF ~canvas
               THEN Rect(v.x, v.y, v.w, v.h)
               ELSE Rect(v.x, w.st.viewport.h - (v.y + v.h), v.w, v.h)
        w1 == Issue(w, "glScissor", <<box.x, box.y, box.w, box.h>>, glScissor(w.drv, box))
    IN  [w1 EXCEPT !.st.scissor = v]

\* OpenGL::setScissor(v)
setScissor(w, v, canvas) ==
    LET box == IF canvas
               THEN Rect(v.x, v.y, v.w, v.h)
               ELSE Rect(v.x, w.st.viewport.h - (v.y + v.h), v.w, v.h)
        w1 == Issue(w, "glScissor", <<box.x, box.y, box.w, box.h>>, glScissor(w.drv, box))
    IN  [w1 EXCEPT !.st.scissor = v]

\* Mutant: the scissor is not applied again.
setViewport_noScissor(w, v, canvas) ==
    LET w1 == Issue(w, "glViewport", <<v.x, v.y, v.w, v.h>>, glViewport(w.drv, v))
    IN  [w1 EXCEPT !.st.viewport = v]

\* OpenGL::setViewport(v)
setViewport(w, v, canvas) ==
    LET w1 == Issue(w, "glViewport", <<v.x, v.y, v.w, v.h>>, glViewport(w.drv, v))
        w2 == [w1 EXCEPT !.st.viewport = v]
    IN  setScissor(w2, w2.st.scissor, canvas)

\* OpenGL::getScissor()
getScissor(st) == st.scissor

(***************************************************************************)
(* Blend state.                                                            *)
(***************************************************************************)
\* Mutant: the separated call is used whatever the factors are.
setBlendState_alwaysSeparate(w, blend) ==
    LET core == glad.es2 \/ glad.v14
        w1 == IF core
              THEN Issue(w, "glBlendEquation", <<blend.func>>,
                         glBlendEquation(w.drv, blend.func))
              ELSE IF glad.blendMinmax /\ glad.blendSubtract
              THEN Issue(w, "glBlendEquationEXT", <<blend.func>>,
                         glBlendEquation(w.drv, blend.func))
              ELSE IF blend.func = "GL_FUNC_REVERSE_SUBTRACT" THEN Throw(w)
              ELSE w
        factors == <<blend.srcRGB, blend.dstRGB, blend.srcA, blend.dstA>>
        sep == glBlendFuncSeparate(w1.drv, blend.srcRGB, blend.dstRGB, blend.srcA, blend.dstA)
        w2 == IF core THEN Issue(w1, "glBlendFuncSeparate", factors, sep)
              ELSE IF glad.blendFuncSeparate
              THEN Issue(w1, "glBlendFuncSeparateEXT", factors, sep)
              ELSE Throw(w1)
    IN  IF w1.fault THEN w1
        ELSE IF w2.fault THEN w2
        ELSE [w2 EXCEPT !.st.blend = blend]

\* OpenGL::setBlendState(blend)
setBlendState(w, blend) ==
    LET core == glad.es2 \/ glad.v14
        w1 == IF core
              THEN Issue(w, "glBlendEquation", <<blend.func>>,
                         glBlendEquation(w.drv, blend.func))
              ELSE IF glad.blendMinmax /\ glad.blendSubtract
              THEN Issue(w, "glBlendEquationEXT", <<blend.func>>,
                         glBlendEquation(w.drv, blend.func))
              ELSE IF blend.func = "GL_FUNC_REVERSE_SUBTRACT" THEN Throw(w)
              ELSE w
        factors == <<blend.srcRGB, blend.dstRGB, blend.srcA, blend.dstA>>
        sep == glBlendFuncSeparate(w1.drv, blend.srcRGB, blend.dstRGB, blend.srcA, blend.dstA)
        w2 == IF blend.srcRGB = blend.srcA /\ blend.dstRGB = blend.dstA
              THEN Issue(w1, "glBlendFunc", <<blend.srcRGB, blend.dstRGB>>,
                         glBlendFunc(w1.drv, blend.srcRGB, blend.dstRGB))
              ELSE IF core THEN Issue(w1, "glBlendFuncSeparate", factors, sep)
              ELSE IF glad.blendFuncSeparate
              THEN Issue(w1, "glBlendFuncSeparateEXT", factors, sep)
              ELSE Throw(w1)
    IN  IF w1.fault THEN w1
        ELSE IF w2.fault THEN w2
        ELSE [w2 EXCEPT !.st.blend = blend]


(***************************************************************************)
(* Capability detection.  A C string is the sequence of its characters;    *)
(* glGetString may return a null pointer.                                  *)
(***************************************************************************)
CStr(chars) == [null |-> FALSE, chars |-> chars]
NullStr == [null |-> TRUE, chars |-> <<>>]

\* strstr(haystack, needle) != NULL
strstr(haystack, needle) ==
    \E i \in 0..(Len(haystack) - Len(needle)) :
        SubSeq(haystack, i + 1, i + Len(needle)) = needle

\* The fragments OpenGL::initVendor looks for, in the order it tests them.
VendorFragments ==
    << <<<<"A", "T", "I", " ", "T", "e", "c", "h", "n", "o", "l", "o", "g", "i", "e", "s">>, "VENDOR_ATI_AMD">>,
       <<<<"N", "V", "I", "D", "I", "A">>, "VENDOR_NVIDIA">>,
       <<<<"I", "n", "t", "e", "l">>, "VENDOR_INTEL">>,
       <<<<"M", "e", "s", "a">>, "VENDOR_MESA_SOFT">>,
       <<<<"A", "p", "p", "l", "e", " ", "C", "o", "m", "p", "u", "t", "e", "r">>, "VENDOR_APPLE">>,
       <<<<"M", "i", "c", "r", "o", "s", "o", "f", "t">>, "VENDOR_MICROSOFT">>,
       <<<<"I", "m", "a", "g", "i", "n", "a", "t", "i", "o", "n">>, "VENDOR_IMGTEC">>,
       <<<<"A", "R", "M">>, "VENDOR_ARM">>,
       <<<<"Q", "u", "a", "l", "c", "o", "m", "m">>, "VENDOR_QUALCOMM">>,
       <<<<"B", "r", "o", "a", "d", "c", "o", "m">>, "VENDOR_BROADCOM">>,
       <<<<"V", "i", "v", "a", "n", "t", "e">>, "VENDOR_VIVANTE">> >>

\* Mutant: the last fragment found wins.
initVendor_lastMatch(vstr) ==
    IF vstr.null THEN "VENDOR_UNKNOWN"
    ELSE LET hits == {i \in 1..Len(VendorFragments) : strstr(vstr.chars, VendorFragments[i][1])}
         IN  IF hits = {} THEN "VENDOR_UNKNOWN"
             ELSE VendorFragments[CHOOSE i \in hits : \A j \in hits : i >= j][2]

\* OpenGL::initVendor(), on the string glGetString(GL_VENDOR) returned.
initVendor(vstr) ==
    IF vstr.null THEN "VENDOR_UNKNOWN"
    ELSE LET hits == {i \in 1..Len(VendorFragments) : strstr(vstr.chars, VendorFragments[i][1])}
         IN  IF hits = {} THEN "VENDOR_UNKNOWN"
             ELSE VendorFragments[CHOOSE i \in hits : \A j \in hits : i <= j][2]

\* Vendor strings of the drivers modelled.
VendorStrings ==
    { NullStr,
      CStr(<<"N", "V", "I", "D", "I", "A", " ", "C", "o", "r", "p", "o", "r", "a", "t", "i", "o", "n">>),
      CStr(<<"I", "n", "t", "e", "l", " ", "O", "p", "e", "n", " ", "S", "o", "u", "r", "c", "e", " ", "T", "e", "c", "h", "n", "o", "l", "o", "g", "y", " ", "C", "e", "n", "t", "e", "r">>),
      CStr(<<"A", "T", "I", " ", "T", "e", "c", "h", "n", "o", "l", "o", "g", "i", "e", "s", " ", "I", "n", "c", ".">>),
      CStr(<<"u", "n", "k", "n", "o", "w", "n", " ", "v", "e", "n", "d", "o", "r", " ", "x", "y", "z">>),
      CStr(<<"M", "e", "s", "a", " ", "P", "r", "o", "j", "e", "c", "t">>),
      CStr(<<"A", "p", "p", "l", "e", " ", "C", "o", "m", "p", "u", "t", "e", "r", ",", " ", "I", "n", "c", ".">>),
      CStr(<<"M", "i", "c", "r", "o", "s", "o", "f", "t", " ", "C", "o", "r", "p", "o", "r", "a", "t", "i", "o", "n">>),
      CStr(<<"I", "m", "a", "g", "i", "n", "a", "t", "i", "o", "n", " ", "T", "e", "c", "h", "n", "o", "l", "o", "g", "i", "e", "s">>),
      CStr(<<"A", "R", "M">>),
      CStr(<<"Q", "u", "a", "l", "c", "o", "m", "m">>),
      CStr(<<"B", "r", "o", "a", "d", "c", "o", "m">>),
      CStr(<<"V", "i", "v", "a", "n", "t", "e", " ", "C", "o", "r", "p", "o", "r", "a", "t", "i", "o", "n">>),
      CStr(<<"M", "e", "s", "a", " ", "I", "n", "t", "e", "l">>),
      CStr(<<"N", "V", "I", "D", "I", "A", " ", "A", "T", "I", " ", "T", "e", "c", "h", "n", "o", "l", "o", "g", "i", "e", "s">>),
      CStr(<<"A", "R", "M", " ", "Q", "u", "a", "l", "c", "o", "m", "m", " ", "V", "i", "v", "a", "n", "t", "e">>),
      CStr(<<"M", "i", "c", "r", "o", "s", "o", "f", "t", " ", "A", "R", "M">>),
      CStr(<<"n", "v", "i", "d", "i", "a", " ", "c", "o", "r", "p", "o", "r", "a", "t", "i", "o", "n">>),
      CStr(<<"A", "T", "I">>),
      CStr(<<>>) }

Min(a, b) == IF a < b THEN a ELSE b

\* OpenGL::initMaxValues(), on the limits the driver reports.
initMaxValues(d) ==
    [ maxAnisotropy |-> IF glad.anisotropic THEN d.limits.maxAnisotropy ELSE 1,
      maxTextureSize |-> d.limits.maxTextureSize,
      maxRenderTargets |->
          IF glad.canvas /\ (glad.v20 \/ glad.drawBuffers)
          THEN Min(d.limits.maxColorAttachments, d.limits.maxDrawBuffers)
          ELSE 0 ]

(***************************************************************************)
(* Matrix stacks.  A stack is a sequence, its back() the last element.     *)
(***************************************************************************)
\* OpenGL::initMatrices()
initMatrices == [transform |-> <<Identity>>, projection |-> <<Identity>>]

back(stack) == stack[Len(stack)]
pop_back(stack) == SubSeq(stack, 1, Len(stack) - 1)

\* Every stack of at most MaxDepth matrices a caller can have written.
Stacks == UNION {[1..n -> MatVals] : n \in 0..MaxDepth}


(***************************************************************************)
(* Matrix stack operations.  std::vector::back() and pop_back() on an      *)
(* empty vector are undefined behaviour: the result is any of the          *)
(* outcomes a build can produce.                                           *)
(***************************************************************************)
\* Mutant: pushes a new Matrix() instead of a copy of the top.
pushTransform_identity(stack) ==
    IF stack = <<>>
    THEN {<<m>> : m \in MatVals}
    ELSE {Append(stack, Identity)}

\* OpenGL::pushTransform(): the stacks it can leave.
pushTransform(stack) ==
    IF stack = <<>>
    THEN {<<m>> : m \in MatVals}
    ELSE {Append(stack, back(stack))}

\* OpenGL::popTransform(): the stacks it can leave.
popTransform(stack) ==
    IF stack = <<>>
    THEN Stacks
    ELSE {pop_back(stack)}

\* getTransform() = m: a write through the reference to the top entry.
writeTransform(stack, m) ==
    IF stack = <<>>
    THEN Stacks
    ELSE {[stack EXCEPT ![Len(stack)] = m]}

(***************************************************************************)
(* Drawing.  shader: whether Shader::current is set.  transform and proj   *)
(* are what matrices.transform.back() and matrices.projection.back()       *)
(* refer to.  memcmp over the sixteen floats is equality of the matrices,  *)
(* a NaN element included.  The calls made on the shader are logged with   *)
(* the driver calls.                                                       *)
(***************************************************************************)
\* What back() of a stack can refer to.
Tops(stack) == IF stack = <<>> THEN MatVals ELSE {back(stack)}

\* OpenGL.cpp:318-327: the built-in uniforms of the current shader.
sendBuiltins(w, transform, proj) ==
    LET w1 == Issue(w, "sendBuiltinMatrix", <<"BUILTIN_TRANSFORM_MATRIX", transform>>, w.drv)
        w2 == Issue(w1, "sendBuiltinMatrix", <<"BUILTIN_PROJECTION_MATRIX", proj>>, w1.drv)
        w3 == Issue(w2, "sendBuiltinMatrix",
                    <<"BUILTIN_TRANSFORM_PROJECTION_MATRIX", proj, transform>>, w2.drv)
    IN  Issue(w3, "sendBuiltinFloat", <<"BUILTIN_POINT_SIZE">>, w3.drv)

\* OpenGL.cpp:331-340: the projection matrix of the fixed-function pipeline.
uploadProjection(w, proj) ==
    IF proj # w.st.lastProjectionMatrix
    THEN LET w1 == Issue(w, "glMatrixMode", <<"GL_PROJECTION">>,
                         glMatrixMode(w.drv, "GL_PROJECTION"))
             w2 == Issue(w1, "glLoadMatrixf", <<proj>>, glLoadMatrixf(w1.drv, proj))
             w3 == Issue(w2, "glMatrixMode", <<"GL_MODELVIEW">>,
                         glMatrixMode(w2.drv, "GL_MODELVIEW"))
         IN  [w3 EXCEPT !.st.lastProjectionMatrix = proj]
    ELSE w

\* Mutant: the transform matrix is uploaded without comparing it.
uploadTransform_always(w, transform) ==
    LET w1 == Issue(w, "glLoadMatrixf", <<transform>>, glLoadMatrixf(w.drv, transform))
    IN  [w1 EXCEPT !.st.lastTransformMatrix = transform]

\* OpenGL.cpp:342-349: the transform matrix of the fixed-function pipeline.
uploadTransform(w, transform) ==
    IF transform # w.st.lastTransformMatrix
    THEN LET w1 == Issue(w, "glLoadMatrixf", <<transform>>, glLoadMatrixf(w.drv, transform))
         IN  [w1 EXCEPT !.st.lastTransformMatrix = transform]
    ELSE w

\* OpenGL::prepareDraw()
prepareDraw(w, transform, proj, shader) ==
    LET w1 == IF shader THEN Issue(w, "checkSetScreenParams", <<>>, w.drv) ELSE w
    IN  IF glad.es2 /\ shader THEN sendBuiltins(w1, transform, proj)
        ELSE IF glad.v10 THEN uploadTransform(uploadProjection(w1, proj), transform)
        ELSE w1

(***************************************************************************)
(* History.  defaultName: the texture the last initContext created;        *)
(* defaultDeletes: the deletions of it deInitContext has issued;           *)
(* failedInit: whether an initContext has failed.  draws: the calls of     *)
(* drawArrays, drawElements and drawElementsBaseVertex made.  prepared:    *)
(* whether prepareDraw has run since the last initialization.  stale:      *)
(* whether it had run when the last initialization began.  clearedOther:   *)
(* whether the last call on the texture units was a deleteTexture of a     *)
(* texture bound to a unit other than the current one.  run: the           *)
(* current run of pushes followed by pops: the top and the depth before    *)
(* its first push, how many pushes and pops it has seen and whether the    *)
(* top was written to since the first push.                                *)
(***************************************************************************)
NoRun == [active |-> FALSE, top0 |-> Identity, depth0 |-> 0, pushes |-> 0, pops |-> 0,
          written |-> FALSE]

RunAfterPush(run, stack) ==
    IF run.active /\ run.pops = 0
    THEN [run EXCEPT !.pushes = @ + 1]
    ELSE IF stack = <<>> THEN NoRun
    ELSE [active |-> TRUE, top0 |-> back(stack), depth0 |-> Len(stack), pushes |-> 1,
          pops |-> 0, written |-> FALSE]

RunAfterPop(run) ==
    IF run.active /\ run.pops < run.pushes
    THEN [run EXCEPT !.pops = @ + 1]
    ELSE NoRun

RunAfterWrite(run) ==
    IF run.active /\ run.pops < run.pushes
    THEN [run EXCEPT !.written = TRUE]
    ELSE NoRun

(***************************************************************************)
(* Context lifecycle.                                                      *)
(***************************************************************************)
\* A query of the driver (glGetIntegerv, glGetFloatv): logged, no effect.
Query(w, what) == Issue(w, "glGet", <<what>>, w.drv)

\* OpenGL.cpp:99-128: the texture units and their bindings, read back from
\* the driver.
readTextureUnits(w) ==
    IF glad.shader
    THEN LET maxtextureunits == DrvUnits(w.drv)
             curgltextureunit == w.drv.activeUnit
             w1 == Query(Query(w, "GL_MAX_COMBINED_TEXTURE_IMAGE_UNITS"), "GL_ACTIVE_TEXTURE")
             \* the loop: glActiveTexture(GL_TEXTURE0 + i); glGetIntegerv(GL_TEXTURE_BINDING_2D)
             loop == [k \in 1..(2 * maxtextureunits) |->
                         IF k % 2 = 1
                         THEN [fn |-> "glActiveTexture", args |-> <<(k - 1) \div 2>>,
                               unit |-> IF k = 1 THEN curgltextureunit ELSE (k - 3) \div 2,
                               mode |-> w.drv.matrixMode]
                         ELSE [fn |-> "glGet", args |-> <<"GL_TEXTURE_BINDING_2D">>,
                               unit |-> (k - 2) \div 2, mode |-> w.drv.matrixMode]]
             last == IF maxtextureunits = 0 THEN curgltextureunit ELSE maxtextureunits - 1
             w2 == [w1 EXCEPT !.calls = @ \o loop,
                              !.drv = glActiveTexture(@, last),
                              !.st.textureUnits = [i \in 0..(maxtextureunits - 1) |-> w.drv.bound[i]],
                              !.st.curTextureUnit = curgltextureunit]
         IN  Issue(w2, "glActiveTexture", <<curgltextureunit>>,
                   glActiveTexture(w2.drv, curgltextureunit))
    ELSE LET w1 == [w EXCEPT !.st.textureUnits = [i \in {0} |-> w.drv.bound[w.drv.activeUnit]],
                             !.st.curTextureUnit = 0]
         IN  Query(w1, "GL_TEXTURE_BINDING_2D")

\* OpenGL::createDefaultTexture(); name is what glGenTextures returns.
createDefaultTexture(w, name) ==
    LET curtexture == w.st.textureUnits[w.st.curTextureUnit]
        w1 == Issue(w, "glGenTextures", <<name>>, glGenTextures(w.drv, name))
        w2 == bindTexture([w1 EXCEPT !.st.defaultTexture = name], name)
        w3 == Issue(w2, "glTexParameteri", <<"GL_TEXTURE_MIN_FILTER", "GL_NEAREST">>, w2.drv)
        w4 == Issue(w3, "glTexParameteri", <<"GL_TEXTURE_MAG_FILTER", "GL_NEAREST">>, w3.drv)
        w5 == Issue(w4, "glTexParameteri", <<"GL_TEXTURE_WRAP_S", "GL_REPEAT">>, w4.drv)
        w6 == Issue(w5, "glTexParameteri", <<"GL_TEXTURE_WRAP_T", "GL_REPEAT">>, w5.drv)
        w7 == Issue(w6, "glTexImage2D", <<"GL_LUMINANCE", "1", "1", "255">>, w6.drv)
    IN  bindTexture(w7, curtexture)

\* Mutant: the cached matrices are not invalidated.
initState_noSentinel(w, name) ==
    LET w1 == Query(w, "GL_VIEWPORT")
        w2 == [w1 EXCEPT !.st.viewport = w.drv.viewport]
        w3 == Query(w2, "GL_SCISSOR_BOX")
        box == w.drv.scissor
        w4 == [w3 EXCEPT !.st.scissor =
                   Rect(box.x, w2.st.viewport.h - (box.y + box.h), box.w, box.h)]
        w5 == readTextureUnits(w4)
        w6 == setBlendState(w5, Blend("GL_ONE", "GL_ONE", "GL_ZERO", "GL_ZERO", "GL_FUNC_ADD"))
        w7 == Query(w6, "GL_MAX_TEXTURE_SIZE")
        w8 == createDefaultTexture(w7, name)
        w9 == w8
    IN  IF w6.fault THEN w6
        ELSE IF glad.v11
        THEN Issue(w9, "glMatrixMode", <<"GL_MODELVIEW">>, glMatrixMode(w9.drv, "GL_MODELVIEW"))
        ELSE w9

\* OpenGL.cpp:86-143: what initContext does to the cache and the driver
\* once the loader has succeeded.
initState(w, name) ==
    LET w1 == Query(w, "GL_VIEWPORT")
        w2 == [w1 EXCEPT !.st.viewport = w.drv.viewport]
        w3 == Query(w2, "GL_SCISSOR_BOX")
        box == w.drv.scissor
        w4 == [w3 EXCEPT !.st.scissor =
                   Rect(box.x, w2.st.viewport.h - (box.y + box.h), box.w, box.h)]
        w5 == readTextureUnits(w4)
        w6 == setBlendState(w5, Blend("GL_ONE", "GL_ONE", "GL_ZERO", "GL_ZERO", "GL_FUNC_ADD"))
        w7 == Query(w6, "GL_MAX_TEXTURE_SIZE")
        w8 == createDefaultTexture(w7, name)
        w9 == [w8 EXCEPT !.st.lastProjectionMatrix = setTranslation(@, NaNVal),
                         !.st.lastTransformMatrix = setTranslation(@, NaNVal)]
    IN  IF w6.fault THEN w6
        ELSE IF glad.v11
        THEN Issue(w9, "glMatrixMode", <<"GL_MODELVIEW">>, glMatrixMode(w9.drv, "GL_MODELVIEW"))
        ELSE w9

Op(name, args, result) == [name |-> name, args |-> args, result |-> result]

\* What an operation that touches only the cache and the driver leaves alone.
Commit(w, name, args) ==
    /\ state' = w.st
    /\ drv' = w.drv
    /\ calls' = w.calls
    /\ lastOp' = Op(name, args, IF w.fault THEN "fault" ELSE "ok")

\* bool OpenGL::initContext() on an initialized context: return true.
initAlready(loaderOk) ==
    /\ lastOp' = Op("initContext", <<loaderOk>>, "true")
    /\ calls' = <<>>
    /\ UNCHANGED <<contextInitialized, state, matrices, caps, stats, drv, glad, hist>>

\* ... when gladLoadGL() fails: return false.
initFailed(loaderOk) ==
    /\ lastOp' = Op("initContext", <<loaderOk>>, "false")
    /\ calls' = <<>>
    /\ hist' = [hist EXCEPT !.failedInit = TRUE]
    /\ UNCHANGED <<contextInitialized, state, matrices, caps, stats, drv, glad>>

\* ... and otherwise (OpenGL.cpp:64-149); name is what glGenTextures returns.
initRun(loaderOk, name) ==
    LET w == initState(World(state, drv, <<>>), name)
    IN  /\ state' = w.st
        /\ drv' = w.drv
        /\ calls' = w.calls
        /\ matrices' = initMatrices
        /\ caps' = [vendor |-> initVendor(drv.vendor)] @@ initMaxValues(drv)
        /\ contextInitialized' = ~w.fault
        /\ lastOp' = Op("initContext", <<loaderOk>>, IF w.fault THEN "fault" ELSE "true")
        /\ hist' = [hist EXCEPT !.defaultName = w.st.defaultTexture,
                                !.defaultDeletes = 0, !.run = NoRun, !.prepared = FALSE,
                                !.stale = hist.prepared, !.clearedOther = FALSE]
        /\ UNCHANGED <<stats, glad>>

\* Mutant: the test of contextInitialized is missing.
initContext_noEarlyReturn(loaderOk, name) ==
    IF ~loaderOk THEN initFailed(loaderOk) ELSE initRun(loaderOk, name)

\* Mutant: initMatrices() runs before the loader is tried.
initContext_matricesFirst(loaderOk, name) ==
    IF contextInitialized THEN initAlready(loaderOk)
    ELSE IF ~loaderOk
    THEN /\ lastOp' = Op("initContext", <<loaderOk>>, "false")
         /\ calls' = <<>>
         /\ matrices' = initMatrices
         /\ hist' = [hist EXCEPT !.failedInit = TRUE]
         /\ UNCHANGED <<contextInitialized, state, caps, stats, drv, glad>>
    ELSE initRun(loaderOk, name)

\* bool OpenGL::initContext(); loaderOk is what gladLoadGL() returns.
initContext(loaderOk, name) ==
    IF contextInitialized THEN initAlready(loaderOk)
    ELSE IF ~loaderOk THEN initFailed(loaderOk)
    ELSE initRun(loaderOk, name)

\* Mutant: the test of contextInitialized is missing.
deInitContext_unguarded ==
    LET w == Issue(World(state, drv, <<>>), "glDeleteTextures", <<state.defaultTexture>>,
                   glDeleteTextures(drv, state.defaultTexture))
    IN  /\ state' = [w.st EXCEPT !.defaultTexture = 0]
        /\ drv' = w.drv
        /\ calls' = w.calls
        /\ contextInitialized' = FALSE
        /\ lastOp' = Op("deInitContext", <<>>, "done")
        /\ hist' = [hist EXCEPT !.defaultDeletes =
                       IF state.defaultTexture = hist.defaultName THEN @ + 1 ELSE @]
        /\ UNCHANGED <<matrices, caps, stats, glad>>

\* void OpenGL::deInitContext()
deInitContext ==
    IF ~contextInitialized
    THEN /\ lastOp' = Op("deInitContext", <<>>, "noop")
         /\ calls' = <<>>
         /\ UNCHANGED <<contextInitialized, state, matrices, caps, stats, drv, glad, hist>>
    ELSE LET w == Issue(World(state, drv, <<>>), "glDeleteTextures", <<state.defaultTexture>>,
                        glDeleteTextures(drv, state.defaultTexture))
         IN  /\ state' = [w.st EXCEPT !.defaultTexture = 0]
             /\ drv' = w.drv
             /\ calls' = w.calls
             /\ contextInitialized' = FALSE
             /\ lastOp' = Op("deInitContext", <<>>, "done")
             /\ hist' = [hist EXCEPT !.defaultDeletes =
                            IF state.defaultTexture = hist.defaultName THEN @ + 1 ELSE @]
             /\ UNCHANGED <<matrices, caps, stats, glad>>


\* What drawArrays, drawElements and drawElementsBaseVertex have in common:
\* the driver call fn, then ++stats.drawCalls.
submit(name, fn) ==
    /\ Commit(Issue(World(state, drv, <<>>), fn, <<>>, drv), name, <<>>)
    /\ stats' = [stats EXCEPT !.drawCalls = @ + 1]
    /\ hist' = [hist EXCEPT !.draws = @ + 1]
    /\ UNCHANGED <<contextInitialized, matrices, caps, glad>>

\* void OpenGL::drawArrays(mode, first, count)
drawArrays == submit("drawArrays", "glDrawArrays")

\* Mutant: the counter is left as it is.
drawElements_notCounted ==
    /\ Commit(Issue(World(state, drv, <<>>), "glDrawElements", <<>>, drv), "drawElements", <<>>)
    /\ hist' = [hist EXCEPT !.draws = @ + 1]
    /\ UNCHANGED <<contextInitialized, matrices, caps, stats, glad>>

\* void OpenGL::drawElements(mode, count, type, indices)
drawElements == submit("drawElements", "glDrawElements")

\* void OpenGL::drawElementsBaseVertex(mode, count, type, indices, basevertex)
drawElementsBaseVertex == submit("drawElementsBaseVertex", "glDrawElementsBaseVertex")


(***************************************************************************)
(* The arguments the operations are called with.                           *)
(***************************************************************************)
BlendFuncs == {"GL_FUNC_ADD", "GL_FUNC_SUBTRACT", "GL_FUNC_REVERSE_SUBTRACT", "GL_MAX"}
SrcFactors == {"GL_ONE", "GL_SRC_ALPHA"}
DstFactors == {"GL_ZERO", "GL_ONE_MINUS_SRC_ALPHA"}
BlendArgs ==
    {Blend(srcRGB, srcA, dstRGB, dstA, func) :
        srcRGB \in SrcFactors, srcA \in SrcFactors,
        dstRGB \in DstFactors, dstA \in DstFactors, func \in BlendFuncs}

ScissorArgs ==
    {Rect(x, y, w, h) : x \in 0..1, y \in 0..MaxCoord, w \in 1..2, h \in 1..(MaxCoord + 1)}
ViewportArgs == {Rect(0, 0, 4, h) : h \in 2..(MaxCoord + 2)} \cup {Rect(1, 1, 2, 2)}

(***************************************************************************)
(* The actions: one per call of a public method.                           *)
(***************************************************************************)
InitContext ==
    \E loaderOk \in BOOLEAN :
        \E name \in (IF contextInitialized \/ ~loaderOk THEN {0}
                     ELSE IF drv.scissor.y \in (-MaxY)..MaxY THEN TexNames \ drv.names
                     ELSE {}) :
            initContext(loaderOk, name)

DeInitContext == deInitContext

SetTextureUnit ==
    /\ contextInitialized
    /\ \E u \in UnitArgs :
           Commit(setTextureUnit(World(state, drv, <<>>), u), "setTextureUnit", <<u>>)
    /\ hist' = [hist EXCEPT !.clearedOther = FALSE]
    /\ UNCHANGED <<contextInitialized, matrices, caps, stats, glad>>

BindTexture ==
    /\ contextInitialized
    /\ \E t \in Handles :
           Commit(bindTexture(World(state, drv, <<>>), t), "bindTexture", <<t>>)
    /\ hist' = [hist EXCEPT !.clearedOther = FALSE]
    /\ UNCHANGED <<contextInitialized, matrices, caps, stats, glad>>

BindTextureToUnit ==
    /\ contextInitialized
    /\ \E t \in Handles, u \in UnitArgs, restoreprev \in BOOLEAN :
           Commit(bindTextureToUnit(World(state, drv, <<>>), t, u, restoreprev),
                  "bindTextureToUnit", <<t, u, restoreprev>>)
    /\ hist' = [hist EXCEPT !.clearedOther = FALSE]
    /\ UNCHANGED <<contextInitialized, matrices, caps, stats, glad>>

DeleteTexture ==
    /\ contextInitialized
    /\ \E t \in Handles :
           /\ Commit(deleteTexture(World(state, drv, <<>>), t), "deleteTexture", <<t>>)
           /\ hist' = [hist EXCEPT !.clearedOther =
                          \E u \in DOMAIN state.textureUnits :
                              u # state.curTextureUnit /\ t # 0 /\ state.textureUnits[u] = t]
    /\ UNCHANGED <<contextInitialized, matrices, caps, stats, glad>>

SetScissor ==
    /\ contextInitialized
    /\ \E v \in ScissorArgs, canvas \in BOOLEAN :
           Commit(setScissor(World(state, drv, <<>>), v, canvas), "setScissor", <<v, canvas>>)
    /\ UNCHANGED <<contextInitialized, matrices, caps, stats, glad, hist>>

SetViewport ==
    /\ contextInitialized
    /\ \E v \in ViewportArgs, canvas \in BOOLEAN :
           Commit(setViewport(World(state, drv, <<>>), v, canvas), "setViewport", <<v, canvas>>)
    /\ UNCHANGED <<contextInitialized, matrices, caps, stats, glad, hist>>

PushTransform ==
    /\ contextInitialized
    /\ Len(matrices.transform) < MaxDepth
    /\ \E stack \in pushTransform(matrices.transform) :
           matrices' = [matrices EXCEPT !.transform = stack]
    /\ hist' = [hist EXCEPT !.run = RunAfterPush(@, matrices.transform)]
    /\ calls' = <<>>
    /\ lastOp' = Op("pushTransform", <<>>, "ok")
    /\ UNCHANGED <<contextInitialized, state, caps, stats, drv, glad>>

PopTransform ==
    /\ contextInitialized
    /\ \E stack \in popTransform(matrices.transform) :
           matrices' = [matrices EXCEPT !.transform = stack]
    /\ hist' = [hist EXCEPT !.run = RunAfterPop(@)]
    /\ calls' = <<>>
    /\ lastOp' = Op("popTransform", <<>>, "ok")
    /\ UNCHANGED <<contextInitialized, state, caps, stats, drv, glad>>

WriteTransform ==
    /\ contextInitialized
    /\ \E m \in MatVals :
         \E stack \in writeTransform(matrices.transform, m) :
           /\ matrices' = [matrices EXCEPT !.transform = stack]
           /\ lastOp' = Op("getTransform", <<m>>, "ok")
    /\ hist' = [hist EXCEPT !.run = RunAfterWrite(@)]
    /\ calls' = <<>>
    /\ UNCHANGED <<contextInitialized, state, caps, stats, drv, glad>>

SetBlendState ==
    /\ contextInitialized
    /\ \E blend \in BlendArgs :
           Commit(setBlendState(World(state, drv, <<>>), blend), "setBlendState", <<blend>>)
    /\ UNCHANGED <<contextInitialized, matrices, caps, stats, glad, hist>>

PrepareDraw ==
    /\ contextInitialized
    /\ \E shader \in (IF glad.shader THEN BOOLEAN ELSE {FALSE}) :
         \E transform \in Tops(matrices.transform), proj \in Tops(matrices.projection) :
           Commit(prepareDraw(World(state, drv, <<>>), transform, proj, shader),
                  "prepareDraw", <<shader>>)
    /\ hist' = [hist EXCEPT !.prepared = TRUE]
    /\ UNCHANGED <<contextInitialized, matrices, caps, stats, glad>>

DrawArrays ==
    /\ contextInitialized
    /\ stats.drawCalls < MaxDraws
    /\ drawArrays

DrawElements ==
    /\ contextInitialized
    /\ stats.drawCalls < MaxDraws
    /\ drawElements

DrawElementsBaseVertex ==
    /\ contextInitialized
    /\ stats.drawCalls < MaxDraws
    /\ drawElementsBaseVertex

(***************************************************************************)
(* The state after construction (OpenGL::OpenGL()), on a driver in any     *)
(* state a host application may have left it in.                           *)
(***************************************************************************)
\* What the host has bound to a texture unit: nothing, or its one texture.
HostTex == {0, 1}

DriverStates ==
    { [activeUnit |-> a, bound |-> b, names |-> {b[i] : i \in DOMAIN b} \ {0},
       viewport |-> v, scissor |-> s,
       blendEq |-> "GL_FUNC_ADD",
       blendFactors |-> <<"GL_ONE", "GL_ZERO", "GL_ONE", "GL_ZERO">>,
       matrixMode |-> "GL_MODELVIEW", projection |-> Identity, modelview |-> Identity,
       limits |-> [maxAnisotropy |-> 16, maxTextureSize |-> 4096,
                   maxColorAttachments |-> 8, maxDrawBuffers |-> 4],
       vendor |-> vs] :
      a \in 0..(MaxUnits - 1),
      b \in UNION {[0..(n - 1) -> HostTex] : n \in 1..MaxUnits},
      v \in ViewportArgs, s \in {Rect(0, 0, 4, 2), Rect(1, 0, 2, 1)},
      vs \in VendorStrings }

Init ==
    /\ contextInitialized = FALSE
    /\ state = [textureUnits |-> <<>>, curTextureUnit |-> 0,
                viewport |-> Rect(0, 0, 0, 0), scissor |-> Rect(0, 0, 0, 0),
                blend |-> Blend("GL_ZERO", "GL_ZERO", "GL_ZERO", "GL_ZERO", "0"),
                defaultTexture |-> 0,
                lastProjectionMatrix |-> Identity, lastTransformMatrix |-> Identity]
    /\ matrices = [transform |-> <<>>, projection |-> <<>>]
    /\ caps = [vendor |-> "VENDOR_UNKNOWN", maxAnisotropy |-> 1, maxTextureSize |-> 0,
               maxRenderTargets |-> 0]
    /\ stats = [drawCalls |-> 0]
    /\ glad \in Profiles
    /\ drv \in DriverStates
    /\ drv.activeUnit \in DOMAIN drv.bound
    /\ (~glad.shader => DrvUnits(drv) = 1)
    /\ calls = <<>>
    /\ lastOp = Op("OpenGL", <<>>, "ok")
    /\ hist = [failedInit |-> FALSE, defaultName |-> 0, defaultDeletes |-> 0, run |-> NoRun,
               draws |-> 0, prepared |-> FALSE, stale |-> FALSE, clearedOther |-> FALSE]

Next ==
    \/ InitContext
    \/ DeInitContext
    \/ SetTextureUnit
    \/ BindTexture
    \/ BindTextureToUnit
    \/ DeleteTexture
    \/ SetScissor
    \/ SetViewport
    \/ PushTransform
    \/ PopTransform
    \/ WriteTransform
    \/ SetBlendState
    \/ PrepareDraw
    \/ DrawArrays
    \/ DrawElements
    \/ DrawElementsBaseVertex

Spec == Init /\ [][Next]_vars


(***************************************************************************)
(* The families of operations do not read each other's part of the state   *)
(* (texture units; viewport and scissor; the transform stack), so each is  *)
(* explored with the lifecycle in a specification of its own, from the     *)
(* initial states that differ in what the family reads.                    *)
(***************************************************************************)
FixedRectangles ==
    /\ drv.viewport = Rect(0, 0, 4, 2)
    /\ drv.scissor = Rect(0, 0, 4, 2)
FixedTextures ==
    /\ DrvUnits(drv) = 1
    /\ drv.bound[0] = 0
FixedVendor == drv.vendor = CStr(<<"N", "V", "I", "D", "I", "A", " ", "C", "o", "r", "p", "o", "r", "a", "t", "i", "o", "n">>)

InitTexture == Init /\ glad \in {ProfileLegacy, ProfileDesktop} /\ FixedRectangles /\ FixedVendor
NextTexture ==
    \/ InitContext
    \/ DeInitContext
    \/ SetTextureUnit
    \/ BindTexture
    \/ BindTextureToUnit
    \/ DeleteTexture
SpecTexture == InitTexture /\ [][NextTexture]_vars

InitRectangles == Init /\ glad = ProfileDesktop /\ FixedTextures /\ FixedVendor
NextRectangles ==
    \/ InitContext
    \/ DeInitContext
    \/ SetScissor
    \/ SetViewport
SpecRectangles == InitRectangles /\ [][NextRectangles]_vars

InitTransform == Init /\ glad = ProfileLegacy /\ FixedTextures /\ FixedRectangles /\ FixedVendor
NextTransform ==
    \/ InitContext
    \/ DeInitContext
    \/ PushTransform
    \/ PopTransform
    \/ WriteTransform
SpecTransform == InitTransform /\ [][NextTransform]_vars

InitBlend == Init /\ FixedTextures /\ FixedRectangles /\ FixedVendor
NextBlend ==
    \/ InitContext
    \/ DeInitContext
    \/ SetBlendState
SpecBlend == InitBlend /\ [][NextBlend]_vars

InitDraw ==
    Init /\ glad \in {ProfileLegacy, ProfileDesktop, ProfileES2}
         /\ FixedTextures /\ FixedRectangles /\ FixedVendor
NextDraw ==
    \/ InitContext
    \/ DeInitContext
    \/ WriteTransform
    \/ PrepareDraw
    \/ DrawArrays
    \/ DrawElements
    \/ DrawElementsBaseVertex
SpecDraw == InitDraw /\ [][NextDraw]_vars

InitVendor == Init /\ glad = ProfileDesktop /\ FixedTextures /\ FixedRectangles
NextVendor ==
    \/ InitContext
    \/ DeInitContext
    \/ BindTexture
SpecVendor == InitVendor /\ [][NextVendor]_vars


(***************************************************************************)
(* The properties checked.  A step is a call of operation `name` when it   *)
(* sets lastOp'.name = name; the unprimed variables of a step formula are  *)
(* the state the call started in.                                          *)
(***************************************************************************)
Called(name) == lastOp'.name = name
Arg(i) == lastOp'.args[i]
ValidUnit(u) == u \in DOMAIN state.textureUnits

(* C1: on an initialized context, after every call of setTextureUnit,       *)
(* bindTexture, bindTextureToUnit and deleteTexture, whether it returned    *)
(* or threw, every cached texture-unit entry equals the texture the driver  *)
(* has bound to that unit and the cached current unit is the driver's       *)
(* active unit.                                                             *)
C1_CacheMirrorsDriver ==
    contextInitialized =>
        /\ DOMAIN state.textureUnits \subseteq DOMAIN drv.bound
        /\ \A u \in DOMAIN state.textureUnits : state.textureUnits[u] = drv.bound[u]
        /\ state.curTextureUnit = drv.activeUnit

\* A bind to another unit that left it the current one, with another
\* texture on unit 0.
C1_Witness ==
    /\ contextInitialized
    /\ lastOp.name = "bindTextureToUnit"
    /\ lastOp.result = "ok"
    /\ Len(calls) = 2
    /\ state.curTextureUnit = 1
    /\ state.textureUnits[1] # 0
    /\ state.textureUnits[0] # state.textureUnits[1]

C2_Step ==
    /\ (contextInitialized /\ Called("bindTexture")
            /\ Arg(1) = state.textureUnits[state.curTextureUnit])
        => (calls' = <<>> /\ state' = state /\ drv' = drv)
    /\ (contextInitialized /\ Called("bindTextureToUnit") /\ ValidUnit(Arg(2))
            /\ Arg(1) = state.textureUnits[Arg(2)])
        => (calls' = <<>> /\ state' = state /\ drv' = drv)

(* C2: a bindTexture(t) with t the cached handle of the current unit, and   *)
(* a bindTextureToUnit(t, u, restoreprev) with t the cached handle of unit  *)
(* u, issue no driver call at all and leave the whole cache unchanged.      *)
C2_RedundantBindIsSilent == [][C2_Step]_vars

\* A redundant bind of a texture to a unit that is not the current one.
C2_Witness ==
    /\ lastOp.name = "bindTextureToUnit"
    /\ lastOp.result = "ok"
    /\ calls = <<>>
    /\ lastOp.args[2] \in DOMAIN state.textureUnits
    /\ lastOp.args[2] # state.curTextureUnit
    /\ lastOp.args[1] # 0
    /\ lastOp.args[1] = state.textureUnits[lastOp.args[2]]

\* The call bound texture t to unit u with one glBindTexture, issued while
\* u was the driver's active unit, and changed no other cache entry.
BoundOnce(t, u) ==
    LET binds == {i \in DOMAIN calls' : calls'[i].fn = "glBindTexture"}
    IN  /\ Cardinality(binds) = 1
        /\ \A i \in binds : calls'[i].args = <<t>> /\ calls'[i].unit = u
        /\ state'.textureUnits = [state.textureUnits EXCEPT ![u] = t]
        /\ lastOp'.result = "ok"

C3_Step ==
    /\ (contextInitialized /\ Called("bindTexture")
            /\ Arg(1) # state.textureUnits[state.curTextureUnit])
        => BoundOnce(Arg(1), state.curTextureUnit)
    /\ (contextInitialized /\ Called("bindTextureToUnit") /\ ValidUnit(Arg(2))
            /\ Arg(1) # state.textureUnits[Arg(2)])
        => BoundOnce(Arg(1), Arg(2))

(* C3: a bindTexture(t) / bindTextureToUnit(t, u, restoreprev) with a valid *)
(* unit and t different from the cached handle of the targeted unit issues  *)
(* exactly one glBindTexture, while the targeted unit is the driver's       *)
(* active unit; the cache entry of that unit becomes t and no other entry   *)
(* changes.                                                                 *)
C3_DifferingBindBindsOnce == [][C3_Step]_vars

\* A bind to another unit that switched to it, bound, and switched back.
C3_Witness ==
    /\ lastOp.name = "bindTextureToUnit"
    /\ lastOp.result = "ok"
    /\ lastOp.args[3] = TRUE
    /\ Len(calls) = 3
    /\ calls[2].fn = "glBindTexture"
    /\ calls[2].unit # state.curTextureUnit
    /\ state.textureUnits[lastOp.args[2]] = lastOp.args[1]

(* C4: setScissor(x, y, w, h) with cached viewport height H hands the       *)
(* driver (x, H-(y+h), w, h) when no Canvas is active and (x, y, w, h) when *)
(* one is; the cache stores (x, y, w, h) in both cases, which is what       *)
(* getScissor returns.                                                      *)
C4_ScissorFlip ==
    lastOp.name = "setScissor" =>
        LET v == lastOp.args[1]
            canvas == lastOp.args[2]
            H == state.viewport.h
            box == IF canvas THEN v ELSE Rect(v.x, H - (v.y + v.h), v.w, v.h)
        IN  /\ Len(calls) = 1
            /\ calls[1].fn = "glScissor"
            /\ calls[1].args = <<box.x, box.y, box.w, box.h>>
            /\ drv.scissor = box
            /\ state.scissor = v
            /\ getScissor(state) = v

\* A setScissor without Canvas whose driver rectangle is not the one set.
C4_Witness ==
    /\ lastOp.name = "setScissor"
    /\ lastOp.args[2] = FALSE
    /\ drv.scissor.y # state.scissor.y
    /\ drv.scissor.y = state.viewport.h - (state.scissor.y + state.scissor.h)

C5_Step ==
    /\ ((Called("setViewport") \/ Called("setScissor")) /\ Arg(2) = FALSE)
        => drv'.scissor = Rect(state'.scissor.x,
                               state'.viewport.h - (state'.scissor.y + state'.scissor.h),
                               state'.scissor.w, state'.scissor.h)
    /\ Called("setViewport")
        => (state'.scissor = state.scissor /\ state'.viewport = Arg(1))

(* C5: setViewport applies the cached scissor again: with no Canvas active, *)
(* after every setViewport and setScissor the driver's scissor rectangle is *)
(* (x, H-(y+h), w, h) for the cached scissor (x, y, w, h) and the cached    *)
(* viewport height H; setViewport leaves the cached scissor unchanged.      *)
C5_ViewportReappliesScissor == [][C5_Step]_vars

\* A setViewport that changed the height under a scissor set before.
C5_Witness ==
    /\ lastOp.name = "setViewport"
    /\ lastOp.args[2] = FALSE
    /\ state.viewport.h = 3
    /\ state.scissor = Rect(1, 1, 1, 2)
    /\ drv.scissor = Rect(1, 0, 1, 2)

(* C6: in every state reached after initContext by pushTransform and        *)
(* popTransform calls the transform stack is non-empty.                     *)
C6_StackNeverEmpty == contextInitialized => Len(matrices.transform) >= 1

(* C7: after N >= 1 pushTransform calls followed by N popTransform calls,   *)
(* with any writes to the top matrix after the first push, the top matrix   *)
(* and the depth of the stack are what they were before the first push;     *)
(* and a push leaves a copy of the former top on top.                       *)
C7_BalancedPushPop ==
    /\ (hist.run.active /\ hist.run.pops = hist.run.pushes)
        => /\ Len(matrices.transform) = hist.run.depth0
           /\ back(matrices.transform) = hist.run.top0
    /\ (lastOp.name = "pushTransform" /\ Len(matrices.transform) >= 2)
        => back(matrices.transform) = matrices.transform[Len(matrices.transform) - 1]

\* Two pushes, writes to the copies, two pops, over a top that is not the
\* identity.
C7_Witness ==
    /\ hist.run.active
    /\ hist.run.pushes = 2
    /\ hist.run.pops = 2
    /\ hist.run.written
    /\ hist.run.top0 # Identity

C8_Step ==
    (contextInitialized /\ Called("initContext"))
        => /\ lastOp'.result = "true"
           /\ calls' = <<>>
           /\ UNCHANGED <<contextInitialized, state, matrices, caps, stats, drv>>

(* C8: initContext on an initialized context returns true, issues no driver *)
(* call and changes nothing: capability table, cache, matrix stacks and     *)
(* default texture handle stay as the initialization left them.             *)
C8_InitIdempotent == [][C8_Step]_vars

\* A repeated initContext on a context whose cache has been written since.
C8_Witness ==
    /\ contextInitialized
    /\ lastOp.name = "initContext"
    /\ lastOp.result = "true"
    /\ calls = <<>>
    /\ state.textureUnits[state.curTextureUnit] # 0
    /\ state.textureUnits[state.curTextureUnit] # state.defaultTexture

C9_Step ==
    (~contextInitialized /\ Called("initContext") /\ Arg(1) = FALSE)
        => /\ lastOp'.result = "false"
           /\ calls' = <<>>
           /\ UNCHANGED <<contextInitialized, state, matrices, caps, stats, drv>>

(* C9: when the loader fails initContext returns false and changes nothing: *)
(* the context stays uninitialized and cache, capability table and matrix   *)
(* stacks are as before.                                                    *)
C9_LoaderFailureCommitsNothing == [][C9_Step]_vars

\* An initContext that succeeded after one that failed.
C9_Witness ==
    /\ contextInitialized
    /\ hist.failedInit
    /\ lastOp.name = "initContext"
    /\ lastOp.args[1] = TRUE
    /\ calls # <<>>

C10_Step ==
    /\ (~contextInitialized /\ Called("deInitContext"))
        => /\ calls' = <<>>
           /\ UNCHANGED <<contextInitialized, state, matrices, caps, stats, drv>>
    /\ (contextInitialized /\ Called("deInitContext"))
        => /\ state.defaultTexture # 0
           /\ calls' = <<Call("glDeleteTextures", <<state.defaultTexture>>, drv)>>
           /\ state.defaultTexture \notin drv'.names
           /\ state'.defaultTexture = 0
           /\ ~contextInitialized'
    /\ hist'.defaultDeletes <= 1

(* C10: deInitContext on an uninitialized context issues no driver call and *)
(* changes nothing; on an initialized one it deletes the default texture,   *)
(* zeroes its handle and clears the flag; the default texture an            *)
(* initialization created is deleted at most once.                          *)
C10_DeInitOnce == [][C10_Step]_vars

\* A second deInitContext after the one that deleted the default texture.
C10_Witness ==
    /\ lastOp.name = "deInitContext"
    /\ lastOp.result = "noop"
    /\ hist.defaultDeletes = 1
    /\ ~contextInitialized

C11_Step ==
    Called("setTextureUnit") =>
        LET u == Arg(1)
            n == NumUnits(state)
            cur == state.curTextureUnit
            faulted == lastOp'.result = "fault"
        IN  /\ (u < 0 \/ u >= n) => faulted
            /\ (n = 1 /\ u # cur) => faulted
            /\ faulted => (calls' = <<>> /\ state' = state /\ drv' = drv)
            /\ (u \in 0..(n - 1) /\ (n > 1 \/ u = cur)) => ~faulted
            /\ (~faulted /\ u # cur) => calls' = <<Call("glActiveTexture", <<u>>, drv)>>
            /\ (~faulted /\ u = cur) => calls' = <<>>
            /\ ~faulted => state'.curTextureUnit = u

(* C11: setTextureUnit(u) faults when u is outside [0, numUnits) and when   *)
(* there is one unit and u is not the current one; a faulting call issues   *)
(* no driver call and leaves the cached current unit; a successful call     *)
(* issues exactly one glActiveTexture when u differs from the current unit  *)
(* and none when it is the current unit, and the cached current unit is u   *)
(* afterwards.                                                              *)
C11_SetTextureUnit == [][C11_Step]_vars

\* A fault on the first index past the units, after a switch to unit 1.
C11_Witness ==
    /\ lastOp.name = "setTextureUnit"
    /\ lastOp.result = "fault"
    /\ lastOp.args[1] = NumUnits(state)
    /\ calls = <<>>
    /\ state.curTextureUnit = 1

\* The driver lacks glBlendEquation and glBlendEquationEXT as the code tests
\* for them.
NoEquationCall == ~(glad.es2 \/ glad.v14) /\ ~(glad.blendMinmax /\ glad.blendSubtract)
Combined(blend) == blend.srcRGB = blend.srcA /\ blend.dstRGB = blend.dstA
EquationCalls(cs) == SelectSeq(cs, LAMBDA c : c.fn \in {"glBlendEquation", "glBlendEquationEXT"})
FactorCalls(cs) ==
    SelectSeq(cs, LAMBDA c : c.fn \in {"glBlendFunc", "glBlendFuncSeparate", "glBlendFuncSeparateEXT"})

C12_Step ==
    (Called("setBlendState") /\ NoEquationCall) =>
        /\ Arg(1).func # "GL_FUNC_ADD" => lastOp'.result = "fault"
        /\ (Arg(1).func = "GL_FUNC_ADD" /\ Combined(Arg(1)))
            => (lastOp'.result = "ok" /\ EquationCalls(calls') = <<>>)

(* C12: on a driver with neither glBlendEquation nor glBlendEquationEXT,    *)
(* setBlendState faults for every blend equation other than GL_FUNC_ADD,    *)
(* and with GL_FUNC_ADD it succeeds without a blend-equation call.          *)
C12_NonAdditiveFaults == [][C12_Step]_vars

C13_Step ==
    (Called("setBlendState") /\ ~(NoEquationCall /\ Arg(1).func = "GL_FUNC_REVERSE_SUBTRACT")) =>
        LET blend == Arg(1)
            core == glad.es2 \/ glad.v14
            sep == <<blend.srcRGB, blend.dstRGB, blend.srcA, blend.dstA>>
            issued == [i \in DOMAIN FactorCalls(calls') |->
                          <<FactorCalls(calls')[i].fn, FactorCalls(calls')[i].args>>]
        IN  /\ Combined(blend)
                => issued = << <<"glBlendFunc", <<blend.srcRGB, blend.dstRGB>>>> >>
            /\ (~Combined(blend) /\ core)
                => issued = << <<"glBlendFuncSeparate", sep>> >>
            /\ (~Combined(blend) /\ ~core /\ glad.blendFuncSeparate)
                => issued = << <<"glBlendFuncSeparateEXT", sep>> >>
            /\ (~Combined(blend) /\ ~core /\ ~glad.blendFuncSeparate)
                => (issued = <<>> /\ lastOp'.result = "fault")
            /\ (lastOp'.result = "fault") <=> (~Combined(blend) /\ ~core /\ ~glad.blendFuncSeparate)
            /\ lastOp'.result = "ok"
                => (state'.blend = blend /\ drv'.blendFactors = sep)

C14_Step ==
    Called("deleteTexture") =>
        /\ calls' = <<Call("glDeleteTextures", <<Arg(1)>>, drv)>>
        /\ lastOp'.result = "ok"
        /\ state'.textureUnits =
               [u \in DOMAIN state.textureUnits |->
                   IF state.textureUnits[u] = Arg(1) THEN 0 ELSE state.textureUnits[u]]
        /\ state'.curTextureUnit = state.curTextureUnit
        /\ drv'.activeUnit = drv.activeUnit

LegacyDraw ==
    /\ Called("prepareDraw")
    /\ ~(glad.es2 /\ Arg(1))
    /\ glad.v10
    /\ matrices.transform # <<>>
    /\ matrices.projection # <<>>
\* The glLoadMatrixf calls of a call log made in matrix mode `mode`.
Uploads(cs, mode) == SelectSeq(cs, LAMBDA c : c.fn = "glLoadMatrixf" /\ c.mode = mode)

C15_Step ==
    LegacyDraw =>
        LET proj == back(matrices.projection)
            transform == back(matrices.transform)
            projUploads == Uploads(calls', "GL_PROJECTION")
            xformUploads == Uploads(calls', "GL_MODELVIEW")
        IN  /\ (proj # state.lastProjectionMatrix) <=> (projUploads # <<>>)
            /\ (transform # state.lastTransformMatrix) <=> (xformUploads # <<>>)
            /\ Len(projUploads) <= 1 /\ Len(xformUploads) <= 1
            /\ \A i \in DOMAIN projUploads : projUploads[i].args = <<proj>>
            /\ \A i \in DOMAIN xformUploads : xformUploads[i].args = <<transform>>
            /\ state'.lastProjectionMatrix = proj
            /\ state'.lastTransformMatrix = transform
            /\ (lastOp.name = "prepareDraw" /\ ~(glad.es2 /\ lastOp.args[1]))
                => (projUploads = <<>> /\ xformUploads = <<>>)

(* C15: on the fixed-function pipeline prepareDraw uploads the projection   *)
(* matrix if and only if the top of the projection stack differs from the   *)
(* last uploaded projection matrix, and likewise the transform matrix;      *)
(* afterwards the last uploaded matrices are the tops, and a prepareDraw    *)
(* that follows another with no matrix change in between uploads nothing.   *)
C15_UploadIffChanged == [][C15_Step]_vars

\* A prepareDraw that uploaded a written transform matrix and no projection.
C15_Witness ==
    /\ lastOp.name = "prepareDraw"
    /\ Len(calls) = 1
    /\ calls[1].fn = "glLoadMatrixf"
    /\ calls[1].mode = "GL_MODELVIEW"
    /\ calls[1].args[1] # Identity
    /\ drv.modelview = back(matrices.transform)

C16_Step ==
    (LegacyDraw /\ ~hist.prepared) =>
        /\ Len(Uploads(calls', "GL_PROJECTION")) = 1
        /\ Len(Uploads(calls', "GL_MODELVIEW")) = 1
        /\ drv'.projection = back(matrices.projection)
        /\ drv'.modelview = back(matrices.transform)

(* C16: the first prepareDraw on the fixed-function pipeline after an       *)
(* initContext that initialized the context, a re-initialization included,  *)
(* uploads both the projection and the transform matrix, whatever was       *)
(* uploaded before.                                                         *)
C16_FirstDrawUploadsBoth == [][C16_Step]_vars

\* The first prepareDraw after a re-initialization, uploading the matrices
\* that had been uploaded before it.
C16_Witness ==
    /\ lastOp.name = "prepareDraw"
    /\ hist.stale
    /\ Len(Uploads(calls, "GL_PROJECTION")) = 1
    /\ Len(Uploads(calls, "GL_MODELVIEW")) = 1
    /\ state.lastTransformMatrix = Identity
    /\ state.lastProjectionMatrix = Identity

C17_Submission ==
    [drawArrays |-> "glDrawArrays", drawElements |-> "glDrawElements",
     drawElementsBaseVertex |-> "glDrawElementsBaseVertex"]

C17_Step ==
    /\ lastOp'.name \in DOMAIN C17_Submission
        => /\ Len(calls') = 1
           /\ calls'[1].fn = C17_Submission[lastOp'.name]
           /\ stats'.drawCalls = stats.drawCalls + 1
    /\ lastOp'.name \notin DOMAIN C17_Submission => stats'.drawCalls = stats.drawCalls
    /\ stats'.drawCalls = hist'.draws

(* C17: each drawArrays, drawElements and drawElementsBaseVertex issues     *)
(* exactly one driver submission call and adds 1 to the draw-call counter;  *)
(* the counter is the number of these calls made, and no other operation    *)
(* changes it.                                                              *)
C17_DrawCallCounter == [][C17_Step]_vars

\* The second draw call, made after a re-initialization.
C17_Witness ==
    /\ lastOp.name = "drawElementsBaseVertex"
    /\ stats.drawCalls = 2
    /\ hist.stale

C18_Step ==
    Called("bindTextureToUnit") =>
        LET t == Arg(1)
            u == Arg(2)
            restoreprev == Arg(3)
        IN  /\ (ValidUnit(u) /\ restoreprev)
                => /\ state'.curTextureUnit = state.curTextureUnit
                   /\ drv'.activeUnit = drv.activeUnit
                   /\ lastOp'.result = "ok"
            /\ (ValidUnit(u) /\ ~restoreprev /\ t # state.textureUnits[u])
                => /\ state'.curTextureUnit = u
                   /\ drv'.activeUnit = u
                   /\ lastOp'.result = "ok"
            /\ ~ValidUnit(u)
                => /\ lastOp'.result = "fault"
                   /\ calls' = <<>>
                   /\ state' = state
                   /\ drv' = drv

(* C18: bindTextureToUnit(t, u, restoreprev) with a valid u leaves the      *)
(* active unit, cached and in the driver, as it was when restoreprev is     *)
(* true; when restoreprev is false and the bind took place the active unit  *)
(* is u afterwards; with an invalid u it faults with no driver call and no  *)
(* change of the cache.                                                     *)
C18_RestorePrev == [][C18_Step]_vars

\* A bind on unit 0 from unit 1, which is the active unit again afterwards.
C18_Witness ==
    /\ lastOp.name = "bindTextureToUnit"
    /\ lastOp.args[3] = TRUE
    /\ lastOp.args[2] = 0
    /\ Len(calls) = 3
    /\ calls[3].fn = "glActiveTexture"
    /\ calls[3].args = <<1>>
    /\ state.curTextureUnit = 1
    /\ drv.activeUnit = 1

\* The fragments in their order of priority, and the vendor of each.
C19_Order ==
    << [fragment |-> <<"A", "T", "I", " ", "T", "e", "c", "h", "n", "o", "l", "o", "g", "i", "e", "s">>, vendor |-> "VENDOR_ATI_AMD"],
       [fragment |-> <<"N", "V", "I", "D", "I", "A">>, vendor |-> "VENDOR_NVIDIA"],
       [fragment |-> <<"I", "n", "t", "e", "l">>, vendor |-> "VENDOR_INTEL"],
       [fragment |-> <<"M", "e", "s", "a">>, vendor |-> "VENDOR_MESA_SOFT"],
       [fragment |-> <<"A", "p", "p", "l", "e", " ", "C", "o", "m", "p", "u", "t", "e", "r">>, vendor |-> "VENDOR_APPLE"],
       [fragment |-> <<"M", "i", "c", "r", "o", "s", "o", "f", "t">>, vendor |-> "VENDOR_MICROSOFT"],
       [fragment |-> <<"I", "m", "a", "g", "i", "n", "a", "t", "i", "o", "n">>, vendor |-> "VENDOR_IMGTEC"],
       [fragment |-> <<"A", "R", "M">>, vendor |-> "VENDOR_ARM"],
       [fragment |-> <<"Q", "u", "a", "l", "c", "o", "m", "m">>, vendor |-> "VENDOR_QUALCOMM"],
       [fragment |-> <<"B", "r", "o", "a", "d", "c", "o", "m">>, vendor |-> "VENDOR_BROADCOM"],
       [fragment |-> <<"V", "i", "v", "a", "n", "t", "e">>, vendor |-> "VENDOR_VIVANTE"] >>

C19_Vendor(vstr) ==
    LET found(i) == ~vstr.null /\ strstr(vstr.chars, C19_Order[i].fragment)
    IN  IF \E i \in DOMAIN C19_Order : found(i)
        THEN C19_Order[CHOOSE i \in DOMAIN C19_Order :
                           found(i) /\ \A j \in 1..(i - 1) : ~found(j)].vendor
        ELSE "VENDOR_UNKNOWN"

(* C19: the vendor is that of the first fragment, in the order ATI          *)
(* Technologies, NVIDIA, Intel, Mesa, Apple Computer, Microsoft,            *)
(* Imagination, ARM, Qualcomm, Broadcom, Vivante, that occurs in the vendor *)
(* string as a case-sensitive substring, and unknown when none occurs or    *)
(* the string is absent; "NVIDIA Corporation", "Intel Open Source           *)
(* Technology Center", "ATI Technologies Inc." and "unknown vendor xyz"     *)
(* classify as NVIDIA, Intel, ATI/AMD and unknown.                          *)
C19_VendorClassification ==
    contextInitialized =>
        /\ caps.vendor = C19_Vendor(drv.vendor)
        /\ drv.vendor = CStr(<<"N", "V", "I", "D", "I", "A", " ", "C", "o", "r", "p", "o", "r", "a", "t", "i", "o", "n">>)
            => caps.vendor = "VENDOR_NVIDIA"
        /\ drv.vendor = CStr(<<"I", "n", "t", "e", "l", " ", "O", "p", "e", "n", " ", "S", "o", "u", "r", "c", "e", " ", "T", "e", "c", "h", "n", "o", "l", "o", "g", "y", " ", "C", "e", "n", "t", "e", "r">>)
            => caps.vendor = "VENDOR_INTEL"
        /\ drv.vendor = CStr(<<"A", "T", "I", " ", "T", "e", "c", "h", "n", "o", "l", "o", "g", "i", "e", "s", " ", "I", "n", "c", ".">>)
            => caps.vendor = "VENDOR_ATI_AMD"
        /\ drv.vendor = CStr(<<"u", "n", "k", "n", "o", "w", "n", " ", "v", "e", "n", "d", "o", "r", " ", "x", "y", "z">>)
            => caps.vendor = "VENDOR_UNKNOWN"
        /\ drv.vendor = NullStr => caps.vendor = "VENDOR_UNKNOWN"

\* A string in which "Mesa" comes before "Intel".
C19_Witness ==
    /\ contextInitialized
    /\ drv.vendor = CStr(<<"M", "e", "s", "a", " ", "I", "n", "t", "e", "l">>)
    /\ caps.vendor = "VENDOR_INTEL"

C20_Step ==
    (Called("setBlendState") /\ lastOp'.result = "fault") =>
        /\ state'.blend = state.blend
        /\ calls' = <<>>
        /\ drv'.blendEq = drv.blendEq
        /\ drv'.blendFactors = drv.blendFactors

(* C20: a setBlendState call that faults leaves the cached blend state as   *)
(* it was and has issued no driver blend call, so the driver's blend        *)
(* equation and factors are unchanged too.                                  *)
C20_FaultHasNoEffect == [][C20_Step]_vars

(* C21: once initContext has succeeded, after every setTextureUnit,        *)
(* bindTexture, bindTextureToUnit and deleteTexture call, faulting calls    *)
(* included, there is at least one texture unit and the cached current      *)
(* unit index lies in [0, numUnits), so the cache entry of the current unit *)
(* exists.                                                                  *)
C21_CurrentUnitInRange ==
    contextInitialized =>
        /\ NumUnits(state) >= 1
        /\ state.curTextureUnit >= 0
        /\ state.curTextureUnit < NumUnits(state)
        /\ state.curTextureUnit \in DOMAIN state.textureUnits

\* A fault on an index below the units, raised while the last unit is the
\* current one.
C21_Witness ==
    /\ contextInitialized
    /\ lastOp.name = "bindTextureToUnit"
    /\ lastOp.result = "fault"
    /\ lastOp.args[2] = -1
    /\ NumUnits(state) = 2
    /\ state.curTextureUnit = 1

====
